---- MODULE Spec2Model ----
(***************************************************************************)
(* Model of server.js: the shared Cee-Lo scoreboard with unique outcomes.  *)
(*                                                                         *)
(* Strings are modelled as sequences of symbols, a symbol being either the *)
(* whitespace symbol SP or a chunk of text without surrounding whitespace, *)
(* so that String.prototype.trim is computed and not assumed.  "Zac" is    *)
(* <<"Zac">>, " Zac" is <<SP, "Zac">> and "" is <<>>.                      *)
(*                                                                         *)
(* Not modelled: updatedAt (a wall-clock stamp that no decision reads) and *)
(* the optional state file.                                                *)
(***************************************************************************)
EXTENDS Integers, Sequences, FiniteSets, TLC

VARIABLES
    friends,      \* state.friends: the roster, a sequence of names
    results,      \* state.results: own properties of the object, name -> value
    adminTokens,  \* the set adminTokens
    resetSecret,  \* RESET_SECRET, read once from the environment
    pc,           \* per request slot: where POST /api/roll stands
    rq,           \* per request slot: req.body.name as sent
    loc,          \* per request slot: the handler's local used, while it runs
    resp,         \* per request slot: the response sent
    probe         \* argument and result of the function under test (pure specs)

vars == <<friends, results, adminTokens, resetSecret, pc, rq, loc, resp, probe>>

-----------------------------------------------------------------------------
(* Bounds of the model *)

\* Number of roll requests that can be in flight at once.
MaxReqs == 2

-----------------------------------------------------------------------------
(* Strings *)

SP == " "

\* String.prototype.trim: drop leading and trailing whitespace.
RECURSIVE TrimLeft(_)
TrimLeft(s) == IF s # <<>> /\ Head(s) = SP THEN TrimLeft(Tail(s)) ELSE s

RECURSIVE TrimRight(_)
TrimRight(s) ==
    IF s # <<>> /\ s[Len(s)] = SP THEN TrimRight(SubSeq(s, 1, Len(s) - 1)) ELSE s

Trim(s) == TrimRight(TrimLeft(s))

\* Array.prototype.includes
Includes(arr, x) == \E i \in 1..Len(arr) : arr[i] = x

Range(arr) == {arr[i] : i \in 1..Len(arr)}

-----------------------------------------------------------------------------
(* Constants of the program *)

DEFAULT_FRIENDS ==
    << <<"David J">>, <<"David L">>, <<"Zac">>, <<"Zach">>, <<"Will">>,
       <<"Jimmy">>, <<"Scott">>, <<"Nick">>, <<"Joey">>, <<"Brandy">> >>

ADMIN_PASSWORD == <<"buck">>

MAX_UNIQUE == 14

\* The retry cap of the allocation loop (tries > 20000).
MAX_TRIES == 20000

-----------------------------------------------------------------------------
(* JavaScript values *)

Undefined == [js |-> "undefined"]
Null == [js |-> "null"]

\* Object.prototype.constructor, the function Object: what a plain object
\* yields for the property "constructor" when it has no own property of
\* that name.
ObjectFn == [js |-> "function Object"]

\* Object.prototype.toString, inherited the same way.
ToStringFn == [js |-> "function toString"]

\* Names that every plain object ({} or JSON.parse output) inherits.
ProtoProps == { <<"constructor">>, <<"toString">> }

\* The value Object.prototype holds under an inherited name
ProtoValue(name) == IF name = <<"constructor">> THEN ObjectFn ELSE ToStringFn

\* Lookup reading the property called "name" (obj.name for obj[name])
Lookup_DotName(obj, name) ==
    IF <<"name">> \in DOMAIN obj THEN obj[<<"name">>] ELSE Undefined

\* obj[name] on a plain object: the own property, else the inherited one,
\* else undefined.
Lookup(obj, name) ==
    IF name \in DOMAIN obj THEN obj[name]
    ELSE IF name \in ProtoProps THEN ProtoValue(name)
    ELSE Undefined

\* Truthiness, for the values that occur here: objects and functions are
\* truthy, undefined and null are not.
Truthy(v) == v # Undefined /\ v # Null

\* Object.values
Values(obj) == {obj[n] : n \in DOMAIN obj}

EmptyObj == [n \in {} |-> Null]

-----------------------------------------------------------------------------
(* Cee Lo logic *)

\* d6(): 1 + Math.floor(Math.random()*6)
D6 == 1..6

\* [d6(),d6(),d6()]: the three dice as thrown, in order
Throws == D6 \X D6 \X D6

Min2(x, y) == IF x <= y THEN x ELSE y
Max2(x, y) == IF x >= y THEN x ELSE y

\* Sort3 with the sort left out
Sort3_Unsorted(d) == d

\* .sort((a,b)=>a-b) on three numbers
Sort3(d) ==
    LET lo == Min2(d[1], Min2(d[2], d[3]))
        hi == Max2(d[1], Max2(d[2], d[3]))
    IN  <<lo, d[1] + d[2] + d[3] - lo - hi, hi>>

NoHand == [js |-> "no hand"]

\* Classify with the point of a high pair taken from the pair (c for a)
Classify_PairAsPoint(thrown) ==
    LET lo == Min2(thrown[1], Min2(thrown[2], thrown[3]))
        hi == Max2(thrown[1], Max2(thrown[2], thrown[3]))
        d == <<lo, thrown[1] + thrown[2] + thrown[3] - lo - hi, hi>>
        a == d[1]
        b == d[2]
        c == d[3]
    IN  IF a = 4 /\ b = 5 /\ c = 6
          THEN [dice |-> d, label |-> <<"4-5-6 (auto win)">>, type |-> "456"]
        ELSE IF a = 1 /\ b = 2 /\ c = 3
          THEN [dice |-> d, label |-> <<"1-2-3 (auto loss)">>, type |-> "123"]
        ELSE IF a = b /\ b = c
          THEN [dice |-> d, label |-> <<"Triple", a>>, type |-> "triple", triple |-> a]
        ELSE IF a = b /\ b # c
          THEN [dice |-> d, label |-> <<"Point", c>>, type |-> "point", point |-> c]
        ELSE IF b = c /\ a # b
          THEN [dice |-> d, label |-> <<"Point", c>>, type |-> "point", point |-> c]
        ELSE NoHand

\* One pass of the body of rollCeeLo's while(true) on the dice thrown: the
\* hand returned, or NoHand when no return is taken and the loop goes round.
Classify(thrown) ==
    LET d == Sort3(thrown)
        a == d[1]
        b == d[2]
        c == d[3]
    IN  IF a = 4 /\ b = 5 /\ c = 6
          THEN [dice |-> d, label |-> <<"4-5-6 (auto win)">>, type |-> "456"]
        ELSE IF a = 1 /\ b = 2 /\ c = 3
          THEN [dice |-> d, label |-> <<"1-2-3 (auto loss)">>, type |-> "123"]
        ELSE IF a = b /\ b = c
          THEN [dice |-> d, label |-> <<"Triple", a>>, type |-> "triple", triple |-> a]
        ELSE IF a = b /\ b # c
          THEN [dice |-> d, label |-> <<"Point", c>>, type |-> "point", point |-> c]
        ELSE IF b = c /\ a # b
          THEN [dice |-> d, label |-> <<"Point", a>>, type |-> "point", point |-> a]
        ELSE IF a = c /\ b # a
          THEN [dice |-> d, label |-> <<"Point", b>>, type |-> "point", point |-> b]
        ELSE NoHand

\* Every hand rollCeeLo can return
Hands == {Classify(t) : t \in Throws} \ {NoHand}

\* h.type === t, for an object h that may lack the property type
TypeIs(h, t) == "type" \in DOMAIN h /\ h.type = t

\* rankScore with the triple's value left out of the score
rankScore_FlatTriples(h) ==
    IF ~Truthy(h) THEN -1
    ELSE IF TypeIs(h, "456") THEN 400
    ELSE IF TypeIs(h, "triple") THEN 300
    ELSE IF TypeIs(h, "point") THEN 100 + h.point
    ELSE IF TypeIs(h, "123") THEN 0
    ELSE -1

rankScore(h) ==
    IF ~Truthy(h) THEN -1
    ELSE IF TypeIs(h, "456") THEN 400
    ELSE IF TypeIs(h, "triple") THEN 300 + h.triple
    ELSE IF TypeIs(h, "point") THEN 100 + h.point
    ELSE IF TypeIs(h, "123") THEN 0
    ELSE -1

\* A JavaScript string as a value that can sit in one set with undefined.
Str(s) == [str |-> s]

\* The key strings: "456" is Str(<<"456">>), `triple:${n}` is
\* Str(<<"triple", n>>).  An object with none of the four types yields its
\* label property, which is undefined for a function.
outcomeKey(h) ==
    IF ~Truthy(h) THEN Str(<<>>)
    ELSE IF TypeIs(h, "456") \/ TypeIs(h, "123") THEN Str(<<h.type>>)
    ELSE IF TypeIs(h, "triple") THEN Str(<<"triple", h.triple>>)
    ELSE IF TypeIs(h, "point") THEN Str(<<"point", h.point>>)
    ELSE IF "label" \in DOMAIN h THEN Str(h.label) ELSE Undefined

-----------------------------------------------------------------------------
(* Leaderboard *)

\* The symbols of the model in the order String.prototype.localeCompare
\* gives them (alphabetical, case of no weight before letters differ).
Collation ==
    << SP, "Bob", "Brandy", "buck", "constructor", "David J", "David L", "Jimmy",
       "Joey", "Nick", "Scott", "toString", "Will", "Zac", "Zach" >>

Rank(sym) == CHOOSE i \in 1..Len(Collation) : Collation[i] = sym

\* a.localeCompare(b): negative, zero or positive
RECURSIVE localeCompare(_, _)
localeCompare(a, b) ==
    IF a = <<>> /\ b = <<>> THEN 0
    ELSE IF a = <<>> THEN -1
    ELSE IF b = <<>> THEN 1
    ELSE IF Head(a) # Head(b) THEN Rank(Head(a)) - Rank(Head(b))
    ELSE localeCompare(Tail(a), Tail(b))

\* The comparator (A,B)=>B.score-A.score || A.name.localeCompare(B.name)
LeaderCmp(A, B) ==
    IF B.score - A.score # 0 THEN B.score - A.score
    ELSE localeCompare(A.name, B.name)

\* Array.prototype.sort with LeaderCmp; the sort is stable.
RECURSIVE InsertEntry(_, _)
InsertEntry(sorted, e) ==
    IF sorted = <<>> THEN <<e>>
    ELSE IF LeaderCmp(sorted[Len(sorted)], e) <= 0 THEN Append(sorted, e)
    ELSE Append(InsertEntry(SubSeq(sorted, 1, Len(sorted) - 1), e), sorted[Len(sorted)])

RECURSIVE SortEntries(_)
SortEntries(arr) ==
    IF arr = <<>> THEN <<>>
    ELSE InsertEntry(SortEntries(SubSeq(arr, 1, Len(arr) - 1)), arr[Len(arr)])

\* What reading withScores[0].score of an empty array does.
TypeError == [js |-> "TypeError"]

\* computeLeaders(results), over the roster roster (state.friends)
computeLeadersOf(roster, res) ==
    LET entries == [i \in 1..Len(roster) |->
                      LET v == Lookup(res, roster[i])
                      IN  [name |-> roster[i], hand |-> IF Truthy(v) THEN v ELSE Null]]
        IsRolled(e) == Truthy(e.hand)
        rolled == SelectSeq(entries, IsRolled)  \* Array.prototype.filter
        withScores == SortEntries([i \in 1..Len(rolled) |->
                         [name |-> rolled[i].name, hand |-> rolled[i].hand,
                          score |-> rankScore(rolled[i].hand)]])
    IN  IF Len(rolled) # Len(roster) THEN [ready |-> FALSE]
        ELSE IF withScores = <<>> THEN TypeError
        ELSE LET topScore == withScores[1].score
                 IsTop(e) == e.score = topScore
             IN  [ready |-> TRUE, leaders |-> SelectSeq(withScores, IsTop),
                  topScore |-> topScore]

computeLeaders(res) == computeLeadersOf(friends, res)

-----------------------------------------------------------------------------
(* Requests: the inputs the model draws from *)

Reqs == 1..MaxReqs

\* req.body.name of a roll request: names of the default roster, one sent
\* with surrounding whitespace, and a name that is also a property of
\* Object.prototype.
RawNames == { <<SP, "Zac">>, <<"Will">>, <<"constructor">> }

\* The dice the random source delivers to a roll request.
Drawn ==
    { <<4, 5, 6>>, <<3, 3, 3>>, <<5, 1, 1>>, <<2, 5, 2>>, <<1, 2, 4>>, <<6, 4, 1>> }

\* What rollCeeLo() can return on those dice: a throw without a hand is
\* thrown again inside rollCeeLo.
rollCeeLo == {Classify(t) : t \in Drawn} \ {NoHand}

\* How many draws of one roll request hit a claimed key before the draw
\* that ends the loop.
Rejections == {0, 1, MAX_TRIES - 1, MAX_TRIES}

NoFrame == [js |-> "no frame"]
NoResp == [js |-> "no response"]

\* res.status(status).json(body).  Of the body of a successful roll only ok
\* is kept: hand is the committed entry, winner is computeLeaders of the
\* state after the commit.
Json(status, body) == [status |-> status, body |-> body]

\* The requests whose handler has begun and not returned
Running == {r \in Reqs : pc[r] = "alloc"}

\* EventLoopIdle for handlers that other requests can interleave with
EventLoopIdle_Always == TRUE

\* Node runs a handler to completion before it dispatches the next
\* request: a synchronous handler is never interleaved with another.
EventLoopIdle == Running = {}

\* Put that replaces the object by one holding the new entry alone
Put_Alone(obj, name, v) == [n \in {name} |-> v]

\* state.results[name] = hand
Put(obj, name, v) ==
    [n \in DOMAIN obj \cup {name} |-> IF n = name THEN v ELSE obj[n]]

\* usedKeys taken over Object.keys, the names, in place of the values
usedKeys_OfNames(res) == {outcomeKey(Str(n)) : n \in DOMAIN res}

\* new Set(Object.values(state.results).map(outcomeKey))
usedKeys(res) == {outcomeKey(v) : v \in Values(res)}

-----------------------------------------------------------------------------
(* POST /api/roll *)

\* A roll request reaches the server and waits for the event loop.
Arrive(r, name) ==
    /\ pc[r] = "idle"
    /\ pc' = [pc EXCEPT ![r] = "pending"]
    /\ rq' = [rq EXCEPT ![r] = name]
    /\ UNCHANGED <<friends, results, adminTokens, resetSecret, loc, resp, probe>>

\* Lines 119-124: the roster check, the already-rolled check, the snapshot
\* of the claimed keys and the exhaustion check.
RollCheck(r) ==
    /\ pc[r] = "pending"
    /\ EventLoopIdle
    /\ LET name == Trim(rq[r])
           used == usedKeys(results)
       IN  IF ~Includes(friends, name)
             THEN /\ resp' = [resp EXCEPT ![r] = Json(400, [error |-> "Name not in league"])]
                  /\ pc' = [pc EXCEPT ![r] = "done"]
                  /\ loc' = loc
           ELSE IF Truthy(Lookup(results, name))
             THEN /\ resp' = [resp EXCEPT ![r] = Json(409, [error |-> "Already rolled"])]
                  /\ pc' = [pc EXCEPT ![r] = "done"]
                  /\ loc' = loc
           ELSE IF Cardinality(used) >= MAX_UNIQUE
             THEN /\ resp' = [resp EXCEPT ![r] =
                                Json(409, [error |-> "All unique outcomes exhausted"])]
                  /\ pc' = [pc EXCEPT ![r] = "done"]
                  /\ loc' = loc
           ELSE /\ loc' = [loc EXCEPT ![r] = [used |-> used]]
                /\ pc' = [pc EXCEPT ![r] = "alloc"]
                /\ resp' = resp
    /\ UNCHANGED <<friends, results, adminTokens, resetSecret, rq, probe>>

\* allocLoop that takes the first hand drawn, claimed or not
allocLoop_FirstDraw(used) == {<<1, h>> : h \in rollCeeLo}

\* The do-while loop of lines 126-132 run to its exit: n draws hit a claimed
\* key (used.has(key)) and the loop went round; draw n+1 either raises tries
\* above the cap, whatever its key, or has an unclaimed key and ends the
\* loop.  The result is <<tries, hand>> as the loop leaves them.
allocLoop(used) ==
    LET claimed == {h \in rollCeeLo : outcomeKey(h) \in used}
    IN  {<<n + 1, h>> : n \in {m \in Rejections : m > 0 => claimed # {}},
                        h \in rollCeeLo} \
        {<<n + 1, h>> : n \in {m \in Rejections : m + 1 <= MAX_TRIES}, h \in claimed}

\* RollCommit writing the last hand drawn before it tests the cap
RollCommit_WriteThenTest(r) ==
    /\ pc[r] = "alloc"
    /\ \E out \in allocLoop(loc[r].used) :
         /\ results' = Put(results, Trim(rq[r]), out[2])
         /\ resp' = [resp EXCEPT ![r] =
                       IF out[1] > MAX_TRIES
                         THEN Json(500, [error |-> "Exceeded attempts for unique outcome"])
                         ELSE Json(200, [ok |-> TRUE])]
    /\ pc' = [pc EXCEPT ![r] = "done"]
    /\ loc' = [loc EXCEPT ![r] = NoFrame]
    /\ UNCHANGED <<friends, adminTokens, resetSecret, rq, probe>>

\* Lines 126-137: the allocation loop, then the return taken when
\* tries > 20000, or the commit and the response.
RollCommit(r) ==
    /\ pc[r] = "alloc"
    /\ \E out \in allocLoop(loc[r].used) :
         LET name == Trim(rq[r])
             tries == out[1]
             hand == out[2]
         IN  IF tries > MAX_TRIES
               THEN /\ resp' = [resp EXCEPT ![r] =
                                  Json(500, [error |-> "Exceeded attempts for unique outcome"])]
                    /\ results' = results
               ELSE /\ results' = Put(results, name, hand)
                    /\ resp' = [resp EXCEPT ![r] = Json(200, [ok |-> TRUE])]
    /\ pc' = [pc EXCEPT ![r] = "done"]
    /\ loc' = [loc EXCEPT ![r] = NoFrame]
    /\ UNCHANGED <<friends, adminTokens, resetSecret, rq, probe>>

\* The client has its response; the slot is free for the next request.
Collect(r) ==
    /\ pc[r] = "done"
    /\ pc' = [pc EXCEPT ![r] = "idle"]
    /\ rq' = [rq EXCEPT ![r] = <<>>]
    /\ resp' = [resp EXCEPT ![r] = NoResp]
    /\ UNCHANGED <<friends, results, adminTokens, resetSecret, loc, probe>>

-----------------------------------------------------------------------------
(* Admin tokens *)

\* The values crypto.randomBytes(16).toString('hex') delivers in the model.
Tokens == { <<"a1">> }

\* The credentials a request carries: its authorization header and the
\* token property of its body (<<>> when absent).
Creds ==
    {[authorization |-> <<>>, token |-> <<>>]}
    \cup {[authorization |-> <<"Bearer", SP, t[1], SP>>, token |-> <<>>] : t \in Tokens}
    \cup {[authorization |-> <<t[1]>>, token |-> <<>>] : t \in Tokens}
    \cup {[authorization |-> <<>>, token |-> t] : t \in Tokens}

\* getToken(req): h.startsWith('Bearer ') ? h.slice(7).trim() : body token
getToken(req) ==
    LET h == req.authorization
    IN  IF Len(h) >= 2 /\ h[1] = "Bearer" /\ h[2] = SP
          THEN Trim(SubSeq(h, 3, Len(h)))
        ELSE IF req.token # <<>> THEN req.token
        ELSE <<>>

\* requireAdmin that lets every request with a token through
requireAdmin_AnyToken(req) == getToken(req) # <<>>

\* requireAdmin lets the request through
requireAdmin(req) ==
    LET t == getToken(req) IN ~(t = <<>> \/ t \notin adminTokens)

\* POST /api/admin/login
AdminLogin(password) ==
    /\ EventLoopIdle
    /\ IF password = <<>> \/ password # ADMIN_PASSWORD
         THEN adminTokens' = adminTokens
         ELSE \E t \in Tokens : adminTokens' = adminTokens \cup {t}
    /\ UNCHANGED <<friends, results, resetSecret, pc, rq, loc, resp, probe>>

-----------------------------------------------------------------------------
(* Resets and the roster edit *)

\* The secrets a legacy reset request submits.
Secrets == { <<>>, <<"hunter2">>, <<"guess">> }

\* POST /api/reset
LegacyReset(secret) ==
    /\ EventLoopIdle
    /\ IF resetSecret = <<>> \/ secret # resetSecret
         THEN results' = results
         ELSE results' = EmptyObj
    /\ UNCHANGED <<friends, adminTokens, resetSecret, pc, rq, loc, resp, probe>>

\* POST /api/admin/reset
AdminReset(req) ==
    /\ EventLoopIdle
    /\ IF ~requireAdmin(req)
         THEN results' = results
         ELSE results' = EmptyObj
    /\ UNCHANGED <<friends, adminTokens, resetSecret, pc, rq, loc, resp, probe>>

\* A request body's friends property: an array of strings, or something
\* that is no array.
NotAnArray == [js |-> "string"]
Arr(items) == [js |-> "array", items |-> items]
isArray(v) == v.js = "array"

\* The friends a set-names request submits.
FriendsInputs ==
    { NotAnArray,
      Arr(<<>>),
      Arr(<< <<>>, <<SP>> >>),
      Arr(<< <<SP, "Zac">> >>),
      Arr(<< <<"Will">>, <<SP, "Zac", SP>>, <<"Will">>, <<>> >>),
      Arr(<< <<"constructor">> >>),
      Arr(<< <<"constructor">>, <<"Zac">>, <<"Zac">> >>),
      Arr(<< <<"toString">>, <<"constructor">> >>) }

\* friends.filter(n => (seen.has(n)?false:(seen.add(n),true)))
RECURSIVE Dedupe(_)
Dedupe(arr) ==
    IF arr = <<>> THEN <<>>
    ELSE LET front == Dedupe(SubSeq(arr, 1, Len(arr) - 1))
             x == arr[Len(arr)]
         IN  IF Includes(front, x) THEN front ELSE Append(front, x)

\* Lines 161-162: trim every element, drop the empty ones, drop repeats.
cleanFriends(arr) ==
    LET trimmed == [i \in 1..Len(arr) |-> Trim(arr[i])]
        NonEmpty(x) == x # <<>>
    IN  Dedupe(SelectSeq(trimmed, NonEmpty))

\* keptResults that keeps state.results as it is
keptResults_All(names, res) == res

\* Lines 165-166: for (const n of friends) if (state.results[n]) newResults[n] = ...
keptResults(names, res) ==
    [n \in {m \in Range(names) : Truthy(Lookup(res, m))} |-> Lookup(res, n)]

\* The handler of POST /api/admin/set-names, lines 159-171
setNames(input) ==
    IF ~isArray(input) \/ cleanFriends(input.items) = <<>>
      THEN UNCHANGED <<friends, results>>
      ELSE /\ friends' = cleanFriends(input.items)
           /\ results' = keptResults(cleanFriends(input.items), results)

\* POST /api/admin/set-names: requireAdmin, then the handler
SetNames(req) ==
    /\ EventLoopIdle
    /\ IF ~requireAdmin(req)
         THEN UNCHANGED <<friends, results>>
         ELSE \E input \in FriendsInputs : setNames(input)
    /\ UNCHANGED <<adminTokens, resetSecret, pc, rq, loc, resp, probe>>

-----
(* The server *)

NoProbe == [js |-> "no probe"]

\* The state after construction without a state file: lines 17-21 and 86.
ServerInit ==
    /\ friends = DEFAULT_FRIENDS
    /\ results = EmptyObj
    /\ adminTokens = {}
    /\ resetSecret \in {<<>>, <<"hunter2">>}
    /\ pc = [r \in Reqs |-> "idle"]
    /\ rq = [r \in Reqs |-> <<>>]
    /\ loc = [r \in Reqs |-> NoFrame]
    /\ resp = [r \in Reqs |-> NoResp]

Init == ServerInit /\ probe = NoProbe

Next ==
    \/ \E r \in Reqs, name \in RawNames : Arrive(r, name)
    \/ \E r \in Reqs : RollCheck(r)
    \/ \E r \in Reqs : RollCommit(r)
    \/ \E r \in Reqs : Collect(r)
    \/ \E password \in {ADMIN_PASSWORD, <<"guess">>, <<>>} : AdminLogin(password)
    \/ \E secret \in Secrets : LegacyReset(secret)
    \/ \E req \in Creds : AdminReset(req)
    \/ \E req \in Creds : SetNames(req)

Spec == Init /\ [][Next]_vars

-----------------------------------------------------------------------------
(* The classifier on every throw *)

Pending == [js |-> "pending"]

\* The three dice as thrown, any of the 216.
InitDice ==
    /\ ServerInit
    /\ probe \in {[fn |-> "rollCeeLo", arg |-> t, out |-> Pending] : t \in Throws}

\* One pass of rollCeeLo's loop body on the dice thrown.
ClassifyThrow ==
    /\ probe.out = Pending
    /\ probe' = [probe EXCEPT !.out = Classify(probe.arg)]
    /\ UNCHANGED <<friends, results, adminTokens, resetSecret, pc, rq, loc, resp>>

SpecDice == InitDice /\ [][ClassifyThrow]_vars

Classified == probe.fn = "rollCeeLo" /\ probe.out # Pending

\* The reference rule, stated on the dice as thrown.
IsRun(t, lo) == {t[1], t[2], t[3]} = {lo, lo + 1, lo + 2}
AllEqual(t) == t[1] = t[2] /\ t[2] = t[3]
AllDistinct(t) == t[1] # t[2] /\ t[2] # t[3] /\ t[1] # t[3]
\* two dice equal each other and the third is v, v not the pair's value
PairWith(t, v) ==
    \E i, j, k \in 1..3 :
        {i, j, k} = 1..3 /\ t[i] = t[j] /\ t[k] = v /\ v # t[i]

\* C6 as stated: for each of the 216 ordered triples the Classifier returns
\* a class; no triple is left unclassified.
C6_Total == Classified => probe.out # NoHand

\* C6 amended: a throw gets no class exactly when its three dice are
\* pairwise distinct and are neither 4-5-6 nor 1-2-3 (108 of the 216
\* throws; rollCeeLo throws again); every other throw (4-5-6, 1-2-3, a
\* triple, a pair plus a singleton) gets exactly one of the four classes.
C6_Partial ==
    Classified =>
        /\ probe.out = NoHand <=>
               AllDistinct(probe.arg) /\ ~IsRun(probe.arg, 4) /\ ~IsRun(probe.arg, 1)
        /\ probe.out # NoHand =>
               probe.out.type \in {"456", "123", "triple", "point"}
        /\ Cardinality({t \in Throws : Classify(t) = NoHand}) = 108

\* a throw in unsorted order was given no class and goes round again
C6_Witness == Classified /\ probe.arg = <<4, 2, 1>> /\ probe.out = NoHand

\* C7: a classified throw is AutoWin exactly when its dice are 4,5,6 in
\* some order, AutoLoss exactly when they are 1,2,3, Triple(v) exactly when
\* all three are v, Point(v) exactly when two are equal and the third is v,
\* v different from the pair.
C7_MatchesRule ==
    Classified /\ probe.out # NoHand =>
        LET t == probe.arg
            h == probe.out
        IN  /\ h.type = "456" <=> IsRun(t, 4)
            /\ h.type = "123" <=> IsRun(t, 1)
            /\ \A v \in D6 :
                 /\ (h.type = "triple" /\ h.triple = v) <=> (AllEqual(t) /\ t[1] = v)
                 /\ (h.type = "point" /\ h.point = v) <=> PairWith(t, v)

\* a pair on the outer dice as thrown, the singleton below the pair
C7_Witness ==
    /\ Classified
    /\ probe.arg = <<5, 2, 5>>
    /\ probe.out # NoHand /\ probe.out.type = "point" /\ probe.out.point = 2

-----------------------------------------------------------------------------
(* Score and key on every pair of hands *)

InitRank ==
    /\ ServerInit
    /\ probe \in {[fn |-> "rankScore", arg |-> <<g, h>>, out |-> Pending] :
                      g \in Hands, h \in Hands}

\* rankScore and outcomeKey of both hands
RankPair ==
    /\ probe.out = Pending
    /\ probe' = [probe EXCEPT !.out =
                    [score |-> <<rankScore(probe.arg[1]), rankScore(probe.arg[2])>>,
                     key |-> <<outcomeKey(probe.arg[1]), outcomeKey(probe.arg[2])>>]]
    /\ UNCHANGED <<friends, results, adminTokens, resetSecret, pc, rq, loc, resp>>

SpecRank == InitRank /\ [][RankPair]_vars

Ranked == probe.fn = "rankScore" /\ probe.out # Pending

\* The place of a hand's class in the order AutoWin, Triple(6), ...,
\* Triple(1), Point(6), ..., Point(1), AutoLoss: 1 is best.
Place(h) ==
    IF h.type = "456" THEN 1
    ELSE IF h.type = "triple" THEN 8 - h.triple
    ELSE IF h.type = "point" THEN 14 - h.point
    ELSE 14

\* C8: Score orders the 14 classes strictly AutoWin > Triple(6) > ... >
\* Triple(1) > Point(6) > ... > Point(1) > AutoLoss; two hands have equal
\* Score exactly when they have the same OutcomeKey; Triple(3) scores 303
\* and Point(5) scores 105.
C8_ScoreOrder ==
    Ranked =>
        LET g == probe.arg[1]
            h == probe.arg[2]
            sg == probe.out.score[1]
            sh == probe.out.score[2]
        IN  /\ sg > sh <=> Place(g) < Place(h)
            /\ sg = sh <=> probe.out.key[1] = probe.out.key[2]
            /\ (g.type = "triple" /\ g.triple = 3) => sg = 303
            /\ (g.type = "point" /\ g.point = 5) => sg = 105
            /\ Cardinality({rankScore(x) : x \in Hands}) = 14

\* Triple(3) against Point(5)
C8_Witness ==
    /\ Ranked
    /\ probe.arg[1].type = "triple" /\ probe.arg[1].triple = 3
    /\ probe.arg[2].type = "point" /\ probe.arg[2].point = 5
    /\ probe.out.score = <<303, 105>>

-----------------------------------------------------------------------------
(* Claims on the server *)

\* The 14 OutcomeKeys
SlotKeys ==
    {Str(<<"456">>), Str(<<"123">>)}
    \cup {Str(<<"triple", n>>) : n \in D6} \cup {Str(<<"point", n>>) : n \in D6}

\* The participant has a recorded outcome: an entry of RoundResults that
\* a roll produced.
HasOutcome(n) == n \in DOMAIN results /\ results[n] \in Hands

\* The participant of the request in slot r
NameOf(r) == Trim(rq[r])

AlreadyRolled == Json(409, [error |-> "Already rolled"])
RollOk == Json(200, [ok |-> TRUE])

\* C1: no two participants in RoundResults hold the same OutcomeKey
\* ("456", "123", "triple:n", "point:n"), in every state reachable by roll,
\* reset and set-names requests, also right after a roster edit.
C1_NoDuplicateKeys ==
    \A a, b \in DOMAIN results :
        (a # b /\ outcomeKey(results[a]) \in SlotKeys)
            => outcomeKey(results[a]) # outcomeKey(results[b])

\* after a roster edit, two participants hold hands under different keys
C1_Witness ==
    /\ friends = << <<"Will">>, <<"Zac">> >>
    /\ HasOutcome(<<"Will">>) /\ HasOutcome(<<"Zac">>)
    /\ results[<<"Will">>].type = "point"

\* C2: once a participant has an entry, every roll request dispatched for
\* that participant is rejected as AlreadyRolled and changes nothing, and
\* the entry stays exactly the same until a reset empties RoundResults or a
\* roster edit removes the participant.
C2_OneOutcome ==
    [][ /\ \A n \in DOMAIN results :
              \/ n \in DOMAIN results' /\ results'[n] = results[n]
              \/ results' = EmptyObj
              \/ friends' # friends /\ ~Includes(friends', n)
        /\ \A r \in Reqs :
              (pc[r] = "pending" /\ pc'[r] # "pending" /\ NameOf(r) \in DOMAIN results)
                  => /\ pc'[r] = "done"
                     /\ resp'[r] = AlreadyRolled
                     /\ results' = results
      ]_vars

\* a second request for a participant who holds a hand was rejected
C2_Witness ==
    \E r \in Reqs :
        /\ pc[r] = "done" /\ resp[r] = AlreadyRolled
        /\ HasOutcome(NameOf(r))

\* C5: a roll request that ends in an error leaves RoundResults and the
\* roster as they were; a successful roll adds exactly one entry, for the
\* requesting participant, and leaves every other entry unchanged; no step
\* of a roll request changes RoundResults otherwise.
C5_AllOrNothing ==
    [][ \A r \in Reqs :
          pc'[r] # pc[r] =>
              /\ friends' = friends
              /\ IF pc'[r] = "done" /\ resp'[r] = RollOk
                   THEN /\ NameOf(r) \notin DOMAIN results
                        /\ DOMAIN results' = DOMAIN results \cup {NameOf(r)}
                        /\ results'[NameOf(r)] \in Hands
                        /\ \A n \in DOMAIN results : results'[n] = results[n]
                   ELSE results' = results
      ]_vars

\* a request ended with AllocationExhausted next to the entries it met
C5_Witness ==
    \E r \in Reqs :
        /\ pc[r] = "done" /\ resp[r].status = 500
        /\ \E n \in DOMAIN results : HasOutcome(n)

\* What computeLeaders returns
IsReady(w) == w # TypeError /\ w.ready
IsNotReady(w) == w = [ready |-> FALSE]

\* C9: the Evaluator returns NotReady exactly when some participant of the
\* roster has no recorded outcome, and Ready exactly when every one has.
C9_ReadyIffAllRolled ==
    LET w == computeLeaders(results)
    IN  /\ IsNotReady(w) <=> \E n \in Range(friends) : ~HasOutcome(n)
        /\ IsReady(w) <=> \A n \in Range(friends) : HasOutcome(n)

\* C10: when the Evaluator returns Ready, topScore is the maximum Score of
\* the roster participants' outcomes and leaders lists exactly the
\* participants whose Score is topScore, in ascending order of name.
C10_TopAndLeaders ==
    LET w == computeLeaders(results)
        rolled == {n \in Range(friends) : HasOutcome(n)}
    IN  IsReady(w) =>
          /\ \E n \in rolled : rankScore(results[n]) = w.topScore
          /\ \A n \in rolled : rankScore(results[n]) <= w.topScore
          /\ {w.leaders[i].name : i \in 1..Len(w.leaders)}
                = {n \in rolled : rankScore(results[n]) = w.topScore}
          /\ \A i, j \in 1..Len(w.leaders) :
                i < j => localeCompare(w.leaders[i].name, w.leaders[j].name) < 0

-----------------------------------------------------------------------------
(* A batch of concurrent roll requests *)

\* Rosters and RoundResults the server can have reached when the batch
\* arrives: the default roster or an edited one, nobody or one participant
\* having rolled, and, for the roster that names "constructor", the entry
\* the edit wrote for it, or none after a reset.
BatchRosters ==
    { DEFAULT_FRIENDS, << <<"Will">>, <<"Zac">> >>, << <<"constructor">>, <<"Zac">> >> }

BatchResults(roster) ==
    LET rolled == {EmptyObj} \cup
                  {Put(EmptyObj, n, h) : n \in { <<"Will">>, <<"Zac">> } \cap Range(roster),
                                        h \in rollCeeLo}
    IN  IF Includes(roster, <<"constructor">>)
          THEN rolled \cup {Put(res, <<"constructor">>, ObjectFn) : res \in rolled}
          ELSE rolled

\* Every slot holds a request that waits for the event loop; probe keeps
\* RoundResults as the batch met it.
InitBatch ==
    /\ friends \in BatchRosters
    /\ results \in BatchResults(friends)
    /\ adminTokens = IF friends = DEFAULT_FRIENDS THEN {} ELSE Tokens
    /\ resetSecret = <<>>
    /\ pc = [r \in Reqs |-> "pending"]
    /\ rq \in [Reqs -> RawNames]
    /\ loc = [r \in Reqs |-> NoFrame]
    /\ resp = [r \in Reqs |-> NoResp]
    /\ probe = [fn |-> "batch", arg |-> results, out |-> Pending]

NextBatch ==
    \/ \E r \in Reqs : RollCheck(r)
    \/ \E r \in Reqs : RollCommit(r)

SpecBatch == InitBatch /\ [][NextBatch]_vars

BatchDone == probe.fn = "batch" /\ \A r \in Reqs : pc[r] = "done"

\* The requests of the batch are for pairwise distinct roster participants
\* who had not rolled when the batch arrived.
DistinctFreshBatch ==
    /\ \A r, q \in Reqs : r # q => NameOf(r) # NameOf(q)
    /\ \A r \in Reqs : Includes(friends, NameOf(r)) /\ NameOf(r) \notin DOMAIN probe.arg
    /\ Cardinality(SlotKeys \ usedKeys(probe.arg)) >= Cardinality(Reqs)

\* C3 as stated: N concurrent requests for N distinct roster participants
\* who have not rolled, N keys being free, end with exactly N new entries
\* holding N pairwise distinct keys, nothing lost.
C3_AllCommit ==
    (BatchDone /\ DistinctFreshBatch) =>
        /\ DOMAIN results = DOMAIN probe.arg \cup {NameOf(r) : r \in Reqs}
        /\ \A n \in DOMAIN probe.arg : results[n] = probe.arg[n]
        /\ \A r, q \in Reqs :
              r # q => outcomeKey(results[NameOf(r)]) # outcomeKey(results[NameOf(q)])

\* C3 amended: such a batch ends with one new entry for each request that
\* was answered with success and none for a request answered with an
\* error; the new entries are hands whose keys differ from each other and
\* from the keys met; every entry met is still there, unchanged.
C3_CommitOrError ==
    (BatchDone /\ DistinctFreshBatch) =>
        /\ \A r \in Reqs :
              /\ resp[r] = RollOk <=> NameOf(r) \in DOMAIN results
              /\ resp[r] # RollOk => resp[r].status \in {409, 500}
        /\ DOMAIN results \subseteq DOMAIN probe.arg \cup {NameOf(r) : r \in Reqs}
        /\ \A n \in DOMAIN probe.arg : n \in DOMAIN results /\ results[n] = probe.arg[n]
        /\ \A n \in DOMAIN results \ DOMAIN probe.arg :
              /\ results[n] \in Hands
              /\ \A m \in DOMAIN results \ {n} :
                    outcomeKey(results[m]) # outcomeKey(results[n])

\* every request of a batch for distinct participants committed, Will's
\* among them
C3_Witness ==
    /\ BatchDone /\ DistinctFreshBatch
    /\ \A r \in Reqs : resp[r] = RollOk /\ HasOutcome(NameOf(r))
    /\ HasOutcome(<<"Will">>)

\* Requests of the batch for one roster participant who had not rolled
SameFresh(r, q) ==
    /\ r # q /\ NameOf(r) = NameOf(q)
    /\ Includes(friends, NameOf(r)) /\ NameOf(r) \notin DOMAIN probe.arg

\* C4 as stated: of two concurrent requests for the same participant
\* exactly one commits and the other is rejected as AlreadyRolled.
C4_ExactlyOne ==
    BatchDone =>
        \A r, q \in Reqs :
            SameFresh(r, q) =>
                \/ resp[r] = RollOk /\ resp[q] = AlreadyRolled
                \/ resp[q] = RollOk /\ resp[r] = AlreadyRolled
                \/ \E o \in Reqs \ {r, q} : NameOf(o) = NameOf(r) /\ resp[o] = RollOk

\* C4 amended: at most one request is between its check and its commit at
\* any time; it is for a participant without an entry and its snapshot of
\* the claimed keys is the set of keys now in RoundResults (no commit came
\* in between).  Of two concurrent requests for the same participant at
\* most one commits; when one commits the other ended AlreadyRolled, or
\* AllocationExhausted before that commit.
C4_Atomic ==
    /\ Cardinality(Running) <= 1
    /\ \A r \in Running :
          /\ loc[r].used = usedKeys(results)
          /\ NameOf(r) \notin DOMAIN results
    /\ \A r, q \in Reqs :
          (SameFresh(r, q) /\ pc[r] = "done" /\ pc[q] = "done" /\ resp[r] = RollOk)
              => /\ resp[q].status \in {409, 500}
                 /\ results[NameOf(r)] \in Hands

\* of two requests for Zac one committed and the other was rejected as
\* AlreadyRolled
C4_Witness ==
    /\ BatchDone
    /\ \E r, q \in Reqs :
          SameFresh(r, q) /\ resp[r] = RollOk /\ resp[q] = AlreadyRolled

-----------------------------------------------------------------------------
(* The decision of a roll request *)

NotInRoster == Json(400, [error |-> "Name not in league"])
OutcomesExhausted == Json(409, [error |-> "All unique outcomes exhausted"])

\* The OutcomeKeys that the recorded outcomes claim
ClaimedKeys == {outcomeKey(results[n]) : n \in {m \in DOMAIN results : HasOutcome(m)}}

\* C11 as stated: a roll request is answered NotInRoster exactly when its
\* name is absent from the roster; otherwise AlreadyRolled exactly when the
\* participant has a recorded outcome; otherwise OutcomesExhausted exactly
\* when all 14 OutcomeKeys are claimed, and then no dice are drawn; only
\* otherwise does allocation start.
C11_DecisionOrder ==
    [][ \A r \in Reqs :
          (pc[r] = "pending" /\ pc'[r] # "pending") =>
              LET name == NameOf(r)
                  inRoster == Includes(friends, name)
                  rolled == HasOutcome(name)
                  full == SlotKeys \subseteq ClaimedKeys
              IN  /\ resp'[r] = NotInRoster <=> ~inRoster
                  /\ inRoster => (resp'[r] = AlreadyRolled <=> rolled)
                  /\ (inRoster /\ ~rolled) => (resp'[r] = OutcomesExhausted <=> full)
                  /\ pc'[r] = "alloc" <=> (inRoster /\ ~rolled /\ ~full)
                  /\ pc'[r] = "done" => results' = results
      ]_vars

-----------------------------------------------------------------------------
(* Roll requests when few keys are left *)

\* A roster of 15 names, as set-names accepts it: one name more than there
\* are OutcomeKeys.
FullRoster ==
    DEFAULT_FRIENDS \o
    << <<"Bob">>, <<"buck">>, <<"Zac", SP, "Bob">>, <<"Will", SP, "Bob">>,
       <<"Nick", SP, "Bob">> >>

\* The 14 keys in the order of their Score
KeyOrder ==
    << Str(<<"456">>) >> \o [i \in 1..6 |-> Str(<<"triple", 7 - i>>)]
       \o [i \in 1..6 |-> Str(<<"point", 7 - i>>)] \o << Str(<<"123">>) >>

\* A hand rollCeeLo returns for the key
HandFor(key) == CHOOSE h \in Hands : outcomeKey(h) = key

\* RoundResults after the first participants of the roster have rolled and
\* hold every key but the free ones.
ResultsLeaving(free) ==
    LET IsClaimed(k) == k \notin free
        claimed == SelectSeq(KeyOrder, IsClaimed)
    IN  [n \in {FullRoster[i] : i \in 1..Len(claimed)} |->
            HandFor(claimed[CHOOSE i \in 1..Len(claimed) : FullRoster[i] = n])]

\* The sets of keys left free: none, one or two
FreeSets == {free \in SUBSET SlotKeys : Cardinality(free) <= 2}

\* The participants who request a roll: the first of the roster, who has
\* rolled, and the last two.
LateNames == {FullRoster[1], FullRoster[14], FullRoster[15]}

\* The roster was set to FullRoster, 12 to 14 participants have rolled and
\* every slot holds a request that waits for the event loop.
InitAlloc ==
    /\ friends = FullRoster
    /\ results \in {ResultsLeaving(free) : free \in FreeSets}
    /\ adminTokens = Tokens
    /\ resetSecret = <<>>
    /\ pc = [r \in Reqs |-> "pending"]
    /\ rq \in [Reqs -> LateNames]
    /\ loc = [r \in Reqs |-> NoFrame]
    /\ resp = [r \in Reqs |-> NoResp]
    /\ probe = NoProbe

SpecAlloc == InitAlloc /\ [][NextBatch]_vars

\* C12: whenever a roll request succeeds, the OutcomeKey of the hand it
\* committed was not in the claimed set the request read at its start
\* (nor claimed by any entry at the commit); when 13 of the 14 keys were
\* claimed, the committed key is the one remaining key.
C12_FreshKey ==
    [][ \A r \in Reqs :
          (pc[r] = "alloc" /\ pc'[r] = "done" /\ resp'[r] = RollOk) =>
              /\ NameOf(r) \in DOMAIN results' /\ results'[NameOf(r)] \in Hands
              /\ LET key == outcomeKey(results'[NameOf(r)])
                 IN  /\ key \in SlotKeys
                     /\ key \notin loc[r].used
                     /\ \A n \in DOMAIN results : outcomeKey(results[n]) # key
                     /\ Cardinality(loc[r].used \cap SlotKeys) = 13
                           => SlotKeys \ loc[r].used = {key}
      ]_vars

\* the 14th participant rolled when 13 keys were claimed and got the last
C12_Witness ==
    /\ friends = FullRoster
    /\ \E r \in Reqs : NameOf(r) = FullRoster[14] /\ resp[r] = RollOk
    /\ {outcomeKey(results[n]) : n \in DOMAIN results} = SlotKeys
    /\ outcomeKey(results[FullRoster[14]]) = Str(<<"point", 5>>)

-----------------------------------------------------------------------------
(* The allocation loop of one roll request, draw by draw *)

\* The claimed sets the loop is run on: nothing claimed, one key of those
\* the dice can give, and all of them.
UsedSets ==
    { {}, {Str(<<"point", 5>>)}, {outcomeKey(h) : h \in rollCeeLo} }

NoDice == <<>>

\* The frame of the handler at line 126: let hand, key, tries = 0, and
\* control about to call rollCeeLo().  d is the array of rollCeeLo.
InitLoop ==
    /\ friends = DEFAULT_FRIENDS
    /\ results = EmptyObj
    /\ adminTokens = {}
    /\ resetSecret = <<>>
    /\ pc = [r \in Reqs |-> "idle"]
    /\ rq = [r \in Reqs |-> <<>>]
    /\ loc = [r \in Reqs |-> NoFrame]
    /\ resp = [r \in Reqs |-> NoResp]
    /\ probe \in {[fn |-> "alloc", used |-> u, tries |-> 0, d |-> NoDice,
                    hand |-> Undefined, at |-> "rollCeeLo"] : u \in UsedSets}

\* One pass of the body of rollCeeLo's while(true), lines 46-53: three
\* dice are thrown and sorted; a return is taken with a hand, or the loop
\* goes round.
ThrowDice ==
    /\ probe.fn = "alloc" /\ probe.at = "rollCeeLo"
    /\ \E t \in Drawn :
         IF Classify(t) = NoHand
           THEN probe' = [probe EXCEPT !.d = Sort3(t)]
           ELSE probe' = [probe EXCEPT !.d = NoDice, !.hand = Classify(t), !.at = "count"]
    /\ UNCHANGED <<friends, results, adminTokens, resetSecret, pc, rq, loc, resp>>

\* Lines 128-132 after rollCeeLo() has returned: the hand is assigned, its
\* key computed, tries incremented and tested against the cap, and then
\* the key tested against the claimed set.
CountTry ==
    /\ probe.fn = "alloc" /\ probe.at = "count"
    /\ LET tries == probe.tries + 1
       IN  probe' = [probe EXCEPT
                       !.tries = tries,
                       !.at = IF tries > MAX_TRIES THEN "exceeded"
                              ELSE IF outcomeKey(probe.hand) \in probe.used
                                THEN "rollCeeLo"
                              ELSE "accepted"]
    /\ UNCHANGED <<friends, results, adminTokens, resetSecret, pc, rq, loc, resp>>

NextLoop == ThrowDice \/ CountTry

SpecLoop == InitLoop /\ [][NextLoop]_vars

\* The handler keeps running until it returns.
SpecLoopFair == SpecLoop /\ WF_vars(ThrowDice) /\ WF_vars(CountTry)

\* C13 as stated: one roll request makes at most 20000 draws (calls of
\* rollCeeLo), and it ends AllocationExhausted only when every draw it
\* made, the last one included, had a claimed key.
C13_DrawCap ==
    probe.fn = "alloc" =>
        /\ probe.tries <= 20000
        /\ probe.at = "exceeded" => outcomeKey(probe.hand) \in probe.used

\* C14 as stated: every roll request terminates, whatever dice come: the
\* allocation ends with a hand to commit or with AllocationExhausted.
C14_Terminates == <>(probe.at \in {"accepted", "exceeded"})

-----------------------------------------------------------------------------
(* Admin requests, one at a time, with the state each one met *)

\* The status of the response to an admin request
Status(n) == [status |-> n]

NoCred == [authorization |-> <<>>, token |-> <<>>]

\* The requests to the four endpoints that change tokens, roster or
\* RoundResults; a field a request does not have holds a default.
AdminRequests ==
    {[fn |-> "login", cred |-> NoCred, password |-> p, input |-> NotAnArray, secret |-> <<>>] :
        p \in {ADMIN_PASSWORD, <<"guess">>, <<>>}}
    \cup {[fn |-> "set-names", cred |-> c, password |-> <<>>, input |-> i, secret |-> <<>>] :
             c \in Creds, i \in FriendsInputs}
    \cup {[fn |-> "admin-reset", cred |-> c, password |-> <<>>, input |-> NotAnArray,
           secret |-> <<>>] : c \in Creds}
    \cup {[fn |-> "reset", cred |-> NoCred, password |-> <<>>, input |-> NotAnArray,
           secret |-> x] : x \in Secrets}

\* A request as it arrives: probe keeps it with the roster, RoundResults
\* and tokens it meets.
Arrived(q) ==
    [fn |-> q.fn, cred |-> q.cred, password |-> q.password, input |-> q.input,
     secret |-> q.secret, friends |-> friends, results |-> results,
     tokens |-> adminTokens, out |-> Pending]

\* RoundResults of the default roster before the first admin request:
\* nobody, Will or Zac, or both have rolled.
AdminResults ==
    BatchResults(DEFAULT_FRIENDS)
    \cup {Put(Put(EmptyObj, <<"Will">>, g), <<"Zac">>, h) :
             g \in {x \in rollCeeLo : x.type = "point"},
             h \in {x \in rollCeeLo : x.type # "point"}}

InitAdmin ==
    /\ friends = DEFAULT_FRIENDS
    /\ results \in AdminResults
    /\ adminTokens = {}
    /\ resetSecret \in {<<>>, <<"hunter2">>}
    /\ pc = [r \in Reqs |-> "idle"]
    /\ rq = [r \in Reqs |-> <<>>]
    /\ loc = [r \in Reqs |-> NoFrame]
    /\ resp = [r \in Reqs |-> NoResp]
    /\ probe \in {Arrived(q) : q \in AdminRequests}

\* The next admin request arrives after the last one was answered.
Receive ==
    /\ probe.out # Pending
    /\ \E q \in AdminRequests : probe' = Arrived(q)
    /\ UNCHANGED <<friends, results, adminTokens, resetSecret, pc, rq, loc, resp>>

\* POST /api/admin/login, lines 151-156, with the status answered
ServeLogin ==
    /\ probe.fn = "login" /\ probe.out = Pending
    /\ IF probe.password = <<>> \/ probe.password # ADMIN_PASSWORD
         THEN adminTokens' = adminTokens /\ probe' = [probe EXCEPT !.out = Status(401)]
         ELSE /\ \E t \in Tokens : adminTokens' = adminTokens \cup {t}
              /\ probe' = [probe EXCEPT !.out = Status(200)]
    /\ UNCHANGED <<friends, results, resetSecret, pc, rq, loc, resp>>

\* POST /api/admin/set-names, lines 98-102 and 158-172, with the status
ServeSetNames ==
    /\ probe.fn = "set-names" /\ probe.out = Pending
    /\ IF ~requireAdmin(probe.cred)
         THEN UNCHANGED <<friends, results>> /\ probe' = [probe EXCEPT !.out = Status(401)]
         ELSE /\ setNames(probe.input)
              /\ probe' = [probe EXCEPT !.out =
                    IF ~isArray(probe.input) \/ cleanFriends(probe.input.items) = <<>>
                      THEN Status(400) ELSE Status(200)]
    /\ UNCHANGED <<adminTokens, resetSecret, pc, rq, loc, resp>>

\* POST /api/admin/reset, lines 98-102 and 174-179, with the status
ServeAdminReset ==
    /\ probe.fn = "admin-reset" /\ probe.out = Pending
    /\ IF ~requireAdmin(probe.cred)
         THEN results' = results /\ probe' = [probe EXCEPT !.out = Status(401)]
         ELSE results' = EmptyObj /\ probe' = [probe EXCEPT !.out = Status(200)]
    /\ UNCHANGED <<friends, adminTokens, resetSecret, pc, rq, loc, resp>>

\* POST /api/reset, lines 141-148, with the status
ServeLegacyReset ==
    /\ probe.fn = "reset" /\ probe.out = Pending
    /\ IF resetSecret = <<>> \/ probe.secret # resetSecret
         THEN results' = results /\ probe' = [probe EXCEPT !.out = Status(403)]
         ELSE results' = EmptyObj /\ probe' = [probe EXCEPT !.out = Status(200)]
    /\ UNCHANGED <<friends, adminTokens, resetSecret, pc, rq, loc, resp>>

NextAdmin ==
    Receive \/ ServeLogin \/ ServeSetNames \/ ServeAdminReset \/ ServeLegacyReset

SpecAdmin == InitAdmin /\ [][NextAdmin]_vars

\* The admin request in probe has been answered
Served(fn) == probe.fn = fn /\ probe.out # Pending

\* C15 as stated: an accepted set-names request replaces the roster with
\* the submitted names, trimmed, empty names and later duplicates removed,
\* order kept, and RoundResults is then exactly the previous RoundResults
\* restricted to the names of the new roster, kept entries unchanged; a
\* request rejected for a non-array or an empty name list changes neither.
C15_EditRestricts ==
    Served("set-names") =>
        /\ probe.out = Status(200) =>
              LET items == probe.input.items
                  First(n) == CHOOSE i \in 1..Len(items) :
                                 Trim(items[i]) = n /\ \A j \in 1..(i - 1) : Trim(items[j]) # n
              IN  /\ Range(friends) = {Trim(items[i]) : i \in 1..Len(items)} \ {<<>>}
                  /\ \A i, j \in 1..Len(friends) :
                        i < j => friends[i] # friends[j] /\ First(friends[i]) < First(friends[j])
                  /\ DOMAIN results = DOMAIN probe.results \cap Range(friends)
                  /\ \A n \in DOMAIN results : results[n] = probe.results[n]
        /\ probe.out = Status(400) => friends = probe.friends /\ results = probe.results

-----------------------------------------------------------------------------
(* Resets *)

\* The step is an accepted reset: an admin reset that carries a token of
\* adminTokens, or a legacy reset with the configured secret.
AcceptedReset ==
    \/ \E req \in Creds : requireAdmin(req) /\ AdminReset(req)
    \/ \E x \in Secrets : resetSecret # <<>> /\ x = resetSecret /\ LegacyReset(x)

\* C16 as stated: a reset empties RoundResults wholesale and leaves the
\* roster unchanged; after it (RoundResults empty) the roll request of
\* every roster participant goes on to allocation; and an entry leaves
\* RoundResults only by a reset or by a roster edit.
C16_ResetClears ==
    [][ /\ AcceptedReset => (results' = EmptyObj /\ friends' = friends)
        /\ \A r \in Reqs :
              (/\ pc[r] = "pending" /\ pc'[r] # "pending"
               /\ results = EmptyObj /\ Includes(friends, NameOf(r)))
                  => pc'[r] = "alloc"
        /\ \A n \in DOMAIN results :
              n \notin DOMAIN results' => (results' = EmptyObj \/ friends' # friends)
      ]_vars

-----------------------------------------------------------------------------
(* Who may change the roster and RoundResults *)

\* Roster or RoundResults differ from what the request in probe met
Changed == friends # probe.friends \/ results # probe.results

\* C17: set-names and admin reset change the roster or RoundResults only
\* when the request carries (as Bearer header or as body token) a token
\* that a successful admin login issued before; legacy reset changes them
\* only when a non-empty secret is configured and the request's secret
\* equals it; a request that fails its check is refused and leaves both
\* unchanged.  Tokens come from logins with the admin password only.
C17_Authorized ==
    /\ Served("login") =>
          /\ ~Changed
          /\ adminTokens # probe.tokens => probe.password = ADMIN_PASSWORD
          /\ probe.tokens \subseteq adminTokens
    /\ (probe.fn # "login" /\ probe.out # Pending) => adminTokens = probe.tokens
    /\ (Served("set-names") \/ Served("admin-reset")) =>
          LET t == getToken(probe.cred)
              issued == t # <<>> /\ t \in probe.tokens
          IN  /\ Changed => issued
              /\ ~issued => (~Changed /\ probe.out = Status(401))
    /\ Served("reset") =>
          LET matches == resetSecret # <<>> /\ probe.secret = resetSecret
          IN  /\ Changed => matches
              /\ ~matches => (~Changed /\ probe.out = Status(403))

\* a set-names request with the issued token in its Bearer header changed
\* the roster
C17_Witness ==
    /\ Served("set-names") /\ probe.out = Status(200)
    /\ probe.cred.authorization = <<"Bearer", SP, "a1", SP>>
    /\ probe.tokens = { <<"a1">> }
    /\ friends # probe.friends

-----------------------------------------------------------------------------
(* The leaderboard in every reachable state *)

\* C18 as stated: in every reachable state the Evaluator completes without
\* error, the roster is not empty, and whenever the Evaluator returns
\* Ready the leaders list has exactly one entry.
C18_OneLeader ==
    LET w == computeLeaders(results)
    IN  /\ w # TypeError
        /\ friends # <<>>
        /\ IsReady(w) => Len(w.leaders) = 1

-----------------------------------------------------------------------------
(* Entries and roster *)

\* C19: in every state reachable from an empty RoundResults, every name
\* with an entry in RoundResults is a member of the current roster, and
\* the number of entries does not exceed the size of the roster.
C19_EntriesInRoster ==
    /\ DOMAIN results \subseteq Range(friends)
    /\ Cardinality(DOMAIN results) <= Len(friends)

\* Will and Zac had rolled; a roster edit kept Zac alone, with the entry
C19_Witness ==
    /\ friends = << <<"Zac">> >>
    /\ DOMAIN results = { <<"Zac">> }
    /\ HasOutcome(<<"Zac">>)

-----------------------------------------------------------------------------
(* A round played to its end *)

\* The rosters whose participants all send roll requests in the model
RoundRosters ==
    { << <<"Zac">> >>, << <<"Will">>, <<"Zac">> >>,
      << <<"constructor">> >>, << <<"constructor">>, <<"Zac">> >> }

\* A state the server has reached by roster edits, rolls and resets, no
\* roll request in flight.
InitRound ==
    /\ friends \in RoundRosters
    /\ results \in BatchResults(friends)
    /\ adminTokens = Tokens
    /\ resetSecret = <<>>
    /\ pc = [r \in Reqs |-> "idle"]
    /\ rq = [r \in Reqs |-> <<>>]
    /\ loc = [r \in Reqs |-> NoFrame]
    /\ resp = [r \in Reqs |-> NoResp]
    /\ probe = NoProbe

\* Roll requests only: no reset and no roster edit occurs.
NextRound ==
    \/ \E r \in Reqs, name \in RawNames : Arrive(r, name)
    \/ \E r \in Reqs : RollCheck(r)
    \/ \E r \in Reqs : RollCommit(r)
    \/ \E r \in Reqs : Collect(r)

\* Every participant keeps requesting, every request is dispatched and
\* answered, and the dice are fair: a request that can draw an unclaimed
\* key again and again does draw one.
SpecRound ==
    /\ InitRound /\ [][NextRound]_vars
    /\ \A name \in RawNames : SF_vars(\E r \in Reqs : Arrive(r, name))
    /\ \A r \in Reqs : SF_vars(RollCheck(r))
    /\ \A r \in Reqs : WF_vars(RollCommit(r))
    /\ \A r \in Reqs : SF_vars(RollCommit(r) /\ resp'[r] = RollOk)
    /\ \A r \in Reqs : WF_vars(Collect(r))

\* C20 as stated: without a reset or a roster edit, all participants
\* without a recorded outcome requesting again and again, the round
\* eventually completes: every roster participant has a recorded outcome
\* and the Evaluator returns Ready.
C20_RoundCompletes ==
    <>(/\ \A n \in Range(friends) : HasOutcome(n)
       /\ IsReady(computeLeaders(results)))

====
